---- MODULE Spec2Model ----
(***************************************************************************)
(* Ingestion-and-cache subsystem of the macro dashboard: ingestor.py (the  *)
(* orchestrator main, the source adapters, the manifest, the rate-limit    *)
(* ledger, the incremental merge) and the read path of data_fetcher.py.    *)
(*                                                                         *)
(* Dates are small integers; a table is a sequence of rows <<index, value>>*)
(* in file order.  A cache key is the pair <<category, name>>.             *)
(***************************************************************************)
EXTENDS Integers, Sequences, FiniteSets, TLC

VARIABLES
    cache,          \* data/<category>/<name>.parquet : table, or NoFile
    manifestDisk,   \* data/manifest.json
    ledgerDisk,     \* data/rate_limits.json
    manifest,       \* main's in-memory manifest dict
    rate_limits,    \* main's in-memory rate_limits dict
    pc,             \* "idle" | "dispatch" | "keys" | "raised" | "done" | "died"
    args,           \* the command line of the current run
    srcPos,         \* position of main's loop in the run's source list
    keyPos,         \* position of the adapter's loop in its key list
    invoked,        \* how often each source function was called in this run
    summary,        \* what the run printed at its end, or NoSummary
    last,           \* the latest key attempt: key, upstream request, outcome
    attempts,       \* key attempts made so far in this run
    today,          \* the date of the current run
    faults,         \* upstream and environment failures so far
    tabE, tabD,     \* merge: the existing table, the incoming table
    tabM, tabMM,    \* merge(E, D), merge(merge(E, D), D)
    merges,         \* merges done on tabE, tabD
    rdCache,        \* read path: the cache file of the ticker
    rdTicker, rdPeriod, rdVariant,  \* the call, and which data_fetcher.py serves it
    rdOut, rdFrom,  \* the table returned, and where its rows come from
    nameA, nameB,   \* file naming: two names of one category
    safeA, safeB,   \* their safe_name in _save_parquet
    named,          \* whether the two paths were built
    fsKind,         \* file writes: "parquet" | "manifest" | "rate_limits"
    fsOld,          \* the file as it was before the write
    fsFile,         \* the file on disk: exists, content (chunks in order)
    wpc,            \* the writer: "start" | "writing" | "closed" | "killed"
    fsSeen,         \* what a read during the write returned
    fsLoaded,       \* what the load of the next run returned
    syFn, syArg, syWin,     \* generator: the read function, its key, its window
    sySalt,         \* the str hash secret of each interpreter process
    syOut,          \* the table each of the three calls returned
    cDisk,          \* two concurrent runs: data/manifest.json
    cMem, cPc,      \* the manifest dict and the position of each run
    cSrc, cPos,     \* the --source of each run, the key its adapter stands at
    cSaves, cSeen,  \* the runs in the order they saved; saves done when a run loaded
    clsBase,        \* classification: the lower-case form of an error text
    clsText,        \* str(error) as the upstream wrote it
    clsOut,         \* "unset" | "rate_limited" | "hard"
    rtFn,           \* network fetch: the function that makes the requests
    rtPlan,         \* what the upstream answers to each request in turn
    rtPages,        \* total_pages of the Federal Register answer
    rtTry,          \* requests made
    rtSlept,        \* the waits before a retry, in seconds
    rtPc, rtErr     \* "run" | "returned" | "raised", and the error raised

ingestVars == <<cache, manifestDisk, ledgerDisk, manifest, rate_limits, pc, args,
                srcPos, keyPos, invoked, summary, last, attempts, today, faults>>
mergeVars  == <<tabE, tabD, tabM, tabMM, merges>>
readVars   == <<rdCache, rdTicker, rdPeriod, rdOut, rdFrom, rdVariant>>
nameVars   == <<nameA, nameB, safeA, safeB, named>>
fileVars   == <<fsKind, fsOld, fsFile, wpc, fsSeen, fsLoaded>>
synVars    == <<syFn, syArg, syWin, sySalt, syOut>>
concVars   == <<cDisk, cMem, cPc, cSrc, cPos, cSaves, cSeen>>
clsVars    == <<clsBase, clsText, clsOut>>
retryVars  == <<rtFn, rtPlan, rtPages, rtTry, rtSlept, rtPc, rtErr>>
restVars   == <<synVars, concVars, clsVars, retryVars>>
vars       == <<ingestVars, mergeVars, readVars, nameVars, fileVars, restVars>>

-----------------------------------------------------------------------------
(* Bounds of the model *)

MaxRuns   == 2      \* ingestion runs in one behaviour; run r happens on date r
MaxFaults == 1      \* upstream / environment failures in one behaviour
MaxLen    == 2      \* rows of a table given to the merge
MaxIdx    == 3      \* index values of the tables given to the merge
MaxVal    == 2      \* values of the rows given to the merge
MaxRows   == 3      \* rows of a cache file given to the read path
MaxName   == 2      \* characters of a name given to _sanitize_filename
MaxChunks == 2      \* buffer flushes that one file write takes

-----------------------------------------------------------------------------
(* Configuration (src/config.py), with the key lists shortened *)

SOURCES == <<"fred", "world_bank", "market", "imf", "semi", "policy">>

FRED          == <<"DFF", "DGS10">>
WB_INDICATORS == <<"NY.GDP.MKTP.CD">>
MARKET_KEYS   == <<"^GSPC">>
IMF_KEYS      == <<"bop", "gold_reserves">>
SEMI_KEYS     == <<"NVDA">>
POLICY_KEYS   == <<"events", "cb_calendar", "tariff_tracker">>

SourceKeys(s) ==
    CASE s = "fred"       -> FRED
      [] s = "world_bank" -> WB_INDICATORS
      [] s = "market"     -> MARKET_KEYS
      [] s = "imf"        -> IMF_KEYS
      [] s = "semi"       -> SEMI_KEYS
      [] s = "policy"     -> POLICY_KEYS

Range(f) == {f[i] : i \in DOMAIN f}

SourceSet == Range(SOURCES)
Keys      == UNION {{<<s, n>> : n \in Range(SourceKeys(s))} : s \in SourceSet}
LedgerKeys == Keys \cup {<<s, "ALL">> : s \in SourceSet}

HIST_START == 1     \* the first date the upstreams hold
Window     == 2     \* the dates a history(period="5y") request covers

None   == "None"
NoDate == -1        \* last_date_ingested = None, no date requested

\* an optional table: a DataFrame, or None / no file
NoDf     == [some |-> FALSE, t |-> <<>>]
Df(t)    == [some |-> TRUE, t |-> t]

\* a manifest entry; present = FALSE stands for a key the dict does not hold,
\* status = None, rows = -1, error = None, date_range = <<>> for a field it lacks
NoManifestEntry ==
    [present |-> FALSE, last_updated |-> 0, status |-> None, rows |-> -1,
     error |-> None, date_range |-> <<>>]

\* a ledger record; status = "absent" stands for a key the dict does not hold
NoRecord ==
    [error |-> None, last_date_ingested |-> NoDate, hit_at |-> 0, status |-> "absent"]

NoSummary == [printed |-> FALSE, ok |-> 0, err |-> 0]

NoAttempt ==
    [key |-> <<None, None>>, start |-> NoDate, outcome |-> None, before |-> NoDf,
     limited |-> FALSE, cursor |-> NoDate, escaped |-> None, error |-> None]

-----------------------------------------------------------------------------
(* Error texts.  An exception is named by an identifier; Text gives str(e) *)
(* as a sequence of characters, so that substring search is computed.      *)

Text(e) ==
    CASE e = "E500"   -> <<"H","T","T","P"," ","5","0","0">>
      [] e = "E429"   -> <<"4","2","9"," ","T","o","o"," ","M","a","n","y">>
      [] e = "EBlank" -> <<>>
      [] e = "ENoSpace" -> <<"N","o"," ","s","p","a","c","e">>
      [] e = "EmptyAPI" -> <<"E","m","p","t","y"," ","r","e","s","p","o","n","s","e",
                             " ","f","r","o","m"," ","A","P","I">>
      [] e = "EmptyYF"  -> <<"E","m","p","t","y"," ","r","e","s","p","o","n","s","e",
                             " ","f","r","o","m"," ","y","f","i","n","a","n","c","e">>
      [] e = "EmptyIMF" -> <<"E","m","p","t","y"," ","r","e","s","p","o","n","s","e",
                             " ","f","r","o","m"," ","I","M","F"," ","A","P","I">>
      [] e = "NoEvents" -> <<"N","o"," ","e","v","e","n","t","s"," ","f","o","u","n","d">>

Exceptions == {"E500", "E429", "EBlank"}

Lower(c) ==
    CASE c = "A" -> "a" [] c = "B" -> "b" [] c = "C" -> "c" [] c = "D" -> "d"
      [] c = "E" -> "e" [] c = "F" -> "f" [] c = "G" -> "g" [] c = "H" -> "h"
      [] c = "I" -> "i" [] c = "J" -> "j" [] c = "K" -> "k" [] c = "L" -> "l"
      [] c = "M" -> "m" [] c = "N" -> "n" [] c = "O" -> "o" [] c = "P" -> "p"
      [] c = "Q" -> "q" [] c = "R" -> "r" [] c = "S" -> "s" [] c = "T" -> "t"
      [] c = "U" -> "u" [] c = "V" -> "v" [] c = "W" -> "w" [] c = "X" -> "x"
      [] c = "Y" -> "y" [] c = "Z" -> "z"
      [] OTHER -> c

LowerStr(s) == [i \in DOMAIN s |-> Lower(s[i])]

Contains(sub, s) ==
    \E i \in 0..(Len(s) - Len(sub)) :
        \A j \in 1..Len(sub) : s[i + j] = sub[j]

\* a signal list without its last entry
rate_limit_signals_short ==
    { <<"4","2","9">>,
      <<"r","a","t","e"," ","l","i","m","i","t">>,
      <<"t","o","o"," ","m","a","n","y"," ","r","e","q","u","e","s","t","s">>,
      <<"t","h","r","o","t","t","l">>,
      <<"q","u","o","t","a"," ","e","x","c","e","e","d","e","d">> }

rate_limit_signals ==
    { <<"4","2","9">>,
      <<"r","a","t","e"," ","l","i","m","i","t">>,
      <<"t","o","o"," ","m","a","n","y"," ","r","e","q","u","e","s","t","s">>,
      <<"t","h","r","o","t","t","l">>,
      <<"q","u","o","t","a"," ","e","x","c","e","e","d","e","d">>,
      <<"l","i","m","i","t"," ","e","x","c","e","e","d","e","d">> }

\* any(s in err_str for s in rate_limit_signals), err_str = str(error).lower()
MatchesSignal(str) == \E s \in rate_limit_signals : Contains(s, LowerStr(str))

_is_rate_limit_error(e) == MatchesSignal(Text(e))

-----------------------------------------------------------------------------
(* Tables *)

IndexOf(t) == {t[i][1] : i \in DOMAIN t}

MaxIndex(t) == CHOOSE m \in IndexOf(t) : \A x \in IndexOf(t) : x <= m
MinIndex(t) == CHOOSE m \in IndexOf(t) : \A x \in IndexOf(t) : m <= x

RECURSIVE KeepFrom(_, _, _)
\* the rows of s at positions i.. that keep(s, position) selects
KeepFrom(s, i, keep) ==
    IF i > Len(s) THEN <<>>
    ELSE IF keep[i] THEN <<s[i]>> \o KeepFrom(s, i + 1, keep)
         ELSE KeepFrom(s, i + 1, keep)

\* the merge with keep="first": of two rows of one index the earlier stays
NotDuplicatedFirst(s) ==
    [i \in DOMAIN s |-> \A j \in 1..(i - 1) : s[j][1] # s[i][1]]

\* ~index.duplicated(keep="last"): a row stays unless a later row has its index
NotDuplicatedLast(s) ==
    [i \in DOMAIN s |-> \A j \in (i + 1)..Len(s) : s[j][1] # s[i][1]]

\* the merge without the duplicated() filter: the plain concatenation
Merge_concat(existing, df) == existing \o df

\* pd.concat([existing, df]).loc[~pd.concat([existing, df]).index.duplicated(keep="last")]
Merge(existing, df) ==
    LET both == existing \o df
    IN  KeepFrom(both, 1, NotDuplicatedLast(both))

\* what an upstream holding dates HIST_START..now returns for a request from `start`
Rows(start, now) == [i \in 1..(now - start + 1) |-> <<start + i - 1, now>>]

-----------------------------------------------------------------------------
(* Manifest and rate-limit ledger *)

\* a load that starts every run from an empty manifest
_load_manifest_empty == [k \in Keys |-> NoManifestEntry]

_load_manifest == manifestDisk

\* a load that starts every run from an empty ledger
_load_rate_limits_empty == [k \in LedgerKeys |-> NoRecord]

_load_rate_limits == ledgerDisk

Truthy(error) == error # None /\ Text(error) # <<>>

_update_manifest(m, key, df, error) ==
    LET entry == [m[key] EXCEPT !.present = TRUE, !.last_updated = today]
        upd   == IF Truthy(error)
                 THEN [entry EXCEPT !.status = "error", !.error = error]
                 ELSE IF df.some
                      THEN [entry EXCEPT
                              !.status = "ok",
                              !.rows = Len(df.t),
                              !.error = None,
                              !.date_range = IF Len(df.t) > 0
                                             THEN <<MinIndex(df.t), MaxIndex(df.t)>>
                                             ELSE @]
                      ELSE entry
    IN  [m EXCEPT ![key] = upd]

_record_rate_limit(limits, source, item, error, last_date) ==
    [limits EXCEPT ![<<source, item>>] =
        [error |-> error, last_date_ingested |-> last_date, hit_at |-> today,
         status |-> "rate_limited"]]

-----------------------------------------------------------------------------
(* Ingestion: main and the source adapters *)

IngestInit ==
    /\ cache        = [k \in Keys |-> NoDf]
    /\ manifestDisk = [k \in Keys |-> NoManifestEntry]
    /\ ledgerDisk   = [k \in LedgerKeys |-> NoRecord]
    /\ manifest     = [k \in Keys |-> NoManifestEntry]
    /\ rate_limits  = [k \in LedgerKeys |-> NoRecord]
    /\ pc       = "idle"
    /\ args     = [update |-> FALSE, source |-> "all"]
    /\ srcPos   = 1
    /\ keyPos   = 1
    /\ invoked  = [s \in SourceSet |-> 0]
    /\ summary  = NoSummary
    /\ last     = NoAttempt
    /\ attempts = 0
    /\ today    = 0
    /\ faults   = 0

\* the sources main runs: one (--source) or all of SOURCE_FUNCTIONS in order
\* the values --source takes in the model (argparse accepts all of SOURCES)
SingleSources == {"fred", "policy"}

RunSources == IF args.source = "all" THEN SOURCES ELSE <<args.source>>

CurSource == RunSources[srcPos]

\* main, up to the dispatch: load the manifest and the ledger
StartRun(update, source) ==
    /\ pc = "idle"
    /\ today < MaxRuns
    /\ today' = today + 1
    /\ args' = [update |-> update, source |-> source]
    /\ manifest' = _load_manifest
    /\ rate_limits' = _load_rate_limits
    /\ pc' = "dispatch"
    /\ srcPos' = 1
    /\ keyPos' = 1
    /\ invoked' = [s \in SourceSet |-> 0]
    /\ summary' = NoSummary
    /\ last' = NoAttempt
    /\ attempts' = 0
    /\ UNCHANGED <<cache, manifestDisk, ledgerDisk, faults>>

\* main calls the source function; the adapter passes its availability checks
CallSource ==
    /\ pc = "dispatch"
    /\ srcPos <= Len(RunSources)
    /\ invoked' = [invoked EXCEPT ![CurSource] = @ + 1]
    /\ pc' = "keys"
    /\ keyPos' = 1
    /\ UNCHANGED <<cache, manifestDisk, ledgerDisk, manifest, rate_limits, args,
                   srcPos, summary, last, attempts, today, faults>>

\* main calls the source function; the adapter finds no FRED_API_KEY, or its
\* client package is not installed, prints "Skipping" and returns
CallSourceSkipped ==
    /\ pc = "dispatch"
    /\ srcPos <= Len(RunSources)
    /\ CurSource \in {"fred", "world_bank", "market", "semi"}
    /\ faults < MaxFaults
    /\ faults' = faults + 1
    /\ invoked' = [invoked EXCEPT ![CurSource] = @ + 1]
    /\ srcPos' = srcPos + 1
    /\ UNCHANGED <<cache, manifestDisk, ledgerDisk, manifest, rate_limits, pc, args,
                   keyPos, summary, last, attempts, today>>

\* what one key attempt can meet: data, no rows, or an exception of the fetch
\* or of the save; saveOK: whether _save_rate_limits of the handler succeeds
Outcomes(hasFetch) ==
    {[kind |-> "ok", e |-> None, saveOK |-> TRUE]}
    \cup (IF faults < MaxFaults
          THEN (IF hasFetch THEN {[kind |-> "empty", e |-> None, saveOK |-> TRUE]} ELSE {})
               \cup {[kind |-> "raise", e |-> x, saveOK |-> TRUE] : x \in Exceptions}
               \cup {[kind |-> "raise", e |-> x, saveOK |-> FALSE] :
                         x \in {y \in Exceptions : _is_rate_limit_error(y)}}
          ELSE {})

\* a handler that goes on with the next key where it should return
Advance_continues(returns) ==
    IF keyPos >= Len(SourceKeys(CurSource))
    THEN /\ pc' = "dispatch"
         /\ srcPos' = srcPos + 1
         /\ keyPos' = 1
    ELSE /\ pc' = "keys"
         /\ srcPos' = srcPos
         /\ keyPos' = keyPos + 1

\* the loop of the adapter moves on: to its next key, or the adapter returns
Advance(returns) ==
    IF returns \/ keyPos >= Len(SourceKeys(CurSource))
    THEN /\ pc' = "dispatch"
         /\ srcPos' = srcPos + 1
         /\ keyPos' = 1
    ELSE /\ pc' = "keys"
         /\ srcPos' = srcPos
         /\ keyPos' = keyPos + 1

\* an adapter that saves whatever the fetch returned, the empty table included
CacheAfter_saves_empty(key, o, df) ==
    IF o.kind = "ok" THEN [cache EXCEPT ![key] = Df(df)]
    ELSE IF o.kind = "empty" THEN [cache EXCEPT ![key] = Df(<<>>)]
    ELSE cache

\* the cache file of `key` after the attempt: _save_parquet runs only past the
\* "df is None or df.empty" check, so only when the fetch returned rows
CacheAfter(key, o, df) ==
    IF o.kind = "ok" THEN [cache EXCEPT ![key] = Df(df)] ELSE cache

\* the try/except body the adapters share, for key <<cat, name>>: `start` is the
\* first date requested, `df` the table the adapter would save, emptyMsg the
\* error it records for an empty response, limitAware whether its handler tests
\* _is_rate_limit_error, returnsOnLimit whether the handler then returns
IngestKey(cat, name, start, df, emptyMsg, limitAware, returnsOnLimit, o) ==
    LET key     == <<cat, name>>
        limited == o.kind = "raise" /\ limitAware /\ _is_rate_limit_error(o.e)
        att     == [key |-> key, start |-> start, outcome |-> o.kind,
                    before |-> cache[key],
                    limited |-> rate_limits[key].status = "rate_limited",
                    cursor |-> rate_limits[key].last_date_ingested,
                    escaped |-> None, error |-> o.e]
    IN
    /\ attempts' = attempts + 1
    /\ faults' = IF o.kind = "ok" THEN faults ELSE faults + 1
    /\ cache' = CacheAfter(key, o, df)
    /\ UNCHANGED <<manifestDisk, args, invoked, summary, today>>
    /\ CASE o.kind = "ok" ->
              /\ manifest' = _update_manifest(manifest, key, Df(df), None)
              /\ last' = att
              /\ Advance(FALSE)
              /\ UNCHANGED <<rate_limits, ledgerDisk>>
         [] o.kind = "empty" ->
              /\ manifest' = _update_manifest(manifest, key, NoDf, emptyMsg)
              /\ last' = att
              /\ Advance(FALSE)
              /\ UNCHANGED <<rate_limits, ledgerDisk>>
         [] o.kind = "raise" /\ ~limited ->
              /\ manifest' = _update_manifest(manifest, key, NoDf, o.e)
              /\ last' = att
              /\ Advance(FALSE)
              /\ UNCHANGED <<rate_limits, ledgerDisk>>
         [] limited /\ o.saveOK ->
              /\ rate_limits' = _record_rate_limit(rate_limits, cat, name, o.e, NoDate)
              /\ ledgerDisk' = rate_limits'
              /\ last' = att
              /\ Advance(returnsOnLimit)
              /\ UNCHANGED manifest
         [] limited /\ ~o.saveOK ->
              \* _save_rate_limits raises inside the handler before it has
              \* touched the file: the exception leaves the adapter
              /\ rate_limits' = _record_rate_limit(rate_limits, cat, name, o.e, NoDate)
              /\ last' = [att EXCEPT !.escaped = "ENoSpace"]
              /\ pc' = "raised"
              /\ UNCHANGED <<manifest, ledgerDisk, srcPos, keyPos>>

CurKey == SourceKeys(CurSource)[keyPos]

InKeys(s) == pc = "keys" /\ CurSource = s

ingest_fred ==
    /\ InKeys("fred")
    /\ \E o \in Outcomes(TRUE) :
         LET existing == cache[<<"fred", CurKey>>]
             start == IF args.update /\ existing.some /\ Len(existing.t) > 0
                      THEN MaxIndex(existing.t)
                      ELSE HIST_START
             data  == Rows(start, today)
             df    == IF args.update /\ existing.some
                      THEN Merge(existing.t, data)
                      ELSE data
         IN  IngestKey("fred", CurKey, start, df, "EmptyAPI", TRUE, TRUE, o)

ingest_world_bank ==
    /\ InKeys("world_bank")
    /\ \E o \in Outcomes(TRUE) :
         IngestKey("world_bank", CurKey, HIST_START, Rows(HIST_START, today),
                   "EmptyAPI", TRUE, TRUE, o)

\* the first date of history(period="5y") asked on date `now`: the window
\* ends today, whatever HIST_START is
PeriodStart(now) == now - Window + 1

ingest_market ==
    /\ InKeys("market")
    /\ \E o \in Outcomes(TRUE) :
         IngestKey("market", CurKey, PeriodStart(today), Rows(PeriodStart(today), today),
                   "EmptyYF", TRUE, TRUE, o)

ingest_imf ==
    /\ InKeys("imf")
    /\ \E o \in Outcomes(TRUE) :
         IngestKey("imf", CurKey, HIST_START, Rows(HIST_START, today),
                   "EmptyIMF", TRUE, TRUE, o)

ingest_semi ==
    /\ InKeys("semi")
    /\ \E o \in Outcomes(TRUE) :
         IngestKey("semi", CurKey, PeriodStart(today), Rows(PeriodStart(today), today),
                   "EmptyYF", TRUE, TRUE, o)

\* the published meeting schedule and the tariff table: built in the program
BuiltTable == <<<<0, 0>>, <<1, 0>>>>

ingest_policy ==
    /\ InKeys("policy")
    /\ IF CurKey = "events"
       THEN \E o \in Outcomes(TRUE) :
              IngestKey("policy", "events", HIST_START, Rows(HIST_START, today),
                        "NoEvents", TRUE, FALSE, o)
       ELSE \E o \in {x \in Outcomes(FALSE) : x.saveOK} :
              IngestKey("policy", CurKey, NoDate, BuiltTable, None, FALSE, FALSE, o)

\* a main whose loop over all sources lets the exception through
MainExcept_reraise ==
    /\ pc = "raised"
    /\ args.source = "all"
    /\ pc' = "died"
    /\ UNCHANGED <<cache, manifestDisk, ledgerDisk, manifest, rate_limits, args, srcPos,
                   keyPos, invoked, summary, last, attempts, today, faults>>

\* main's except clause of the loop over all sources
MainExcept ==
    /\ pc = "raised"
    /\ args.source = "all"
    /\ rate_limits' = _record_rate_limit(rate_limits, CurSource, "ALL", last.escaped, NoDate)
    /\ pc' = "dispatch"
    /\ srcPos' = srcPos + 1
    /\ keyPos' = 1
    /\ UNCHANGED <<cache, manifestDisk, ledgerDisk, manifest, args, invoked, summary,
                   last, attempts, today, faults>>

\* --source: main calls the function outside any try; the exception ends the
\* process before the manifest is saved
Uncaught ==
    /\ pc = "raised"
    /\ args.source # "all"
    /\ pc' = "died"
    /\ UNCHANGED <<cache, manifestDisk, ledgerDisk, manifest, rate_limits, args, srcPos,
                   keyPos, invoked, summary, last, attempts, today, faults>>

CountStatus(m, st) == Cardinality({k \in Keys : m[k].present /\ m[k].status = st})

\* main after the sources: save the manifest, the ledger if it holds
\* anything, print the summary
Finish ==
    /\ pc = "dispatch"
    /\ srcPos > Len(RunSources)
    /\ manifestDisk' = manifest
    /\ ledgerDisk' = IF \E k \in LedgerKeys : rate_limits[k].status # "absent"
                     THEN rate_limits
                     ELSE ledgerDisk
    /\ summary' = [printed |-> TRUE, ok |-> CountStatus(manifest, "ok"),
                   err |-> CountStatus(manifest, "error")]
    /\ pc' = "done"
    /\ UNCHANGED <<cache, manifest, rate_limits, args, srcPos, keyPos, invoked, last,
                   attempts, today, faults>>

\* the process ends (main returned, or died of the exception): its memory is
\* gone, the files stay
Exit ==
    /\ pc \in {"done", "died"}
    /\ pc' = "idle"
    /\ manifest' = [k \in Keys |-> NoManifestEntry]
    /\ rate_limits' = [k \in LedgerKeys |-> NoRecord]
    /\ args' = [update |-> FALSE, source |-> "all"]
    /\ srcPos' = 1
    /\ keyPos' = 1
    /\ invoked' = [s \in SourceSet |-> 0]
    /\ summary' = NoSummary
    /\ last' = NoAttempt
    /\ attempts' = 0
    /\ UNCHANGED <<cache, manifestDisk, ledgerDisk, today, faults>>

\* --clean: shutil.rmtree(DATA_DIR)
clean_data ==
    /\ pc = "idle"
    /\ today > 0
    /\ cache' = [k \in Keys |-> NoDf]
    /\ manifestDisk' = [k \in Keys |-> NoManifestEntry]
    /\ ledgerDisk' = [k \in LedgerKeys |-> NoRecord]
    /\ UNCHANGED <<manifest, rate_limits, pc, args, srcPos, keyPos, invoked, summary,
                   last, attempts, today, faults>>

\* the part of the state the ingestor does not touch
Untouched == UNCHANGED <<mergeVars, readVars, nameVars, fileVars, restVars>>

RunStep ==
    \/ CallSource /\ Untouched
    \/ CallSourceSkipped /\ Untouched
    \/ ingest_fred /\ Untouched
    \/ ingest_world_bank /\ Untouched
    \/ ingest_market /\ Untouched
    \/ ingest_imf /\ Untouched
    \/ ingest_semi /\ Untouched
    \/ ingest_policy /\ Untouched
    \/ MainExcept /\ Untouched
    \/ Uncaught /\ Untouched
    \/ Finish /\ Untouched
    \/ Exit /\ Untouched

Next ==
    \/ \E update \in BOOLEAN, source \in SingleSources \cup {"all"} :
          StartRun(update, source) /\ Untouched
    \/ RunStep
    \/ clean_data /\ Untouched

MergeIdle ==
    /\ tabE = <<>> /\ tabD = <<>> /\ tabM = <<>> /\ tabMM = <<>> /\ merges = 0

ReadIdle ==
    /\ rdCache = NoDf /\ rdTicker = None /\ rdPeriod = None /\ rdVariant = None
    /\ rdOut = NoDf /\ rdFrom = None

NameIdle ==
    /\ nameA = <<>> /\ nameB = <<>> /\ safeA = <<>> /\ safeB = <<>> /\ named = FALSE

\* a file: whether the path exists, and the chunks it holds
NoFile == [exists |-> FALSE, content |-> <<>>]

\* the result of a read: "notread" | "nofile" | "raises" | "none" | "doc"
NotRead == [kind |-> "notread", content |-> <<>>]

FileIdle ==
    /\ fsKind = None /\ fsOld = NoFile /\ fsFile = NoFile /\ wpc = "idle"
    /\ fsSeen = NotRead /\ fsLoaded = NotRead

\* no call of a read function pending
SynIdle ==
    /\ syFn = None /\ syArg = None /\ syWin = 0 /\ sySalt = <<>> /\ syOut = <<>>

\* no second run
ConcIdle ==
    /\ cDisk = <<>> /\ cMem = <<>> /\ cPc = <<>> /\ cSrc = <<>> /\ cPos = <<>>
    /\ cSaves = <<>> /\ cSeen = <<>>

\* no error to classify
ClsIdle == clsBase = <<>> /\ clsText = <<>> /\ clsOut = "unset"

\* no fetch under way
RetryIdle ==
    /\ rtFn = None /\ rtPlan = <<>> /\ rtPages = 0 /\ rtTry = 0 /\ rtSlept = <<>>
    /\ rtPc = "idle" /\ rtErr = None

RestIdle == SynIdle /\ ConcIdle /\ ClsIdle /\ RetryIdle

Init == IngestInit /\ MergeIdle /\ ReadIdle /\ NameIdle /\ FileIdle /\ RestIdle

Spec == Init /\ [][Next]_vars

-----------------------------------------------------------------------------
(* The incremental merge on its own: every existing table a cache file can  *)
(* hold (strictly increasing index), every incoming table                   *)

RowSet == (1..MaxIdx) \X (1..MaxVal)

Tables == UNION {[1..n -> RowSet] : n \in 0..MaxLen}

StrictlyIncreasing(t) == \A i \in 1..(Len(t) - 1) : t[i][1] < t[i + 1][1]

MergeInit ==
    /\ IngestInit /\ ReadIdle /\ NameIdle /\ FileIdle /\ RestIdle
    /\ tabE \in {t \in Tables : StrictlyIncreasing(t)}
    /\ tabD \in Tables
    /\ tabM = <<>> /\ tabMM = <<>> /\ merges = 0

\* an incremental update merges the fetched rows into the cached table
MergeOnce ==
    /\ merges = 0
    /\ tabM' = Merge(tabE, tabD)
    /\ merges' = 1
    /\ UNCHANGED <<tabE, tabD, tabMM, ingestVars, readVars, nameVars,
                 fileVars, restVars>>

\* the same rows arrive again and are merged into the result
MergeAgain ==
    /\ merges = 1
    /\ tabMM' = Merge(tabM, tabD)
    /\ merges' = 2
    /\ UNCHANGED <<tabE, tabD, tabM, ingestVars, readVars, nameVars,
                 fileVars, restVars>>

MergeNext == MergeOnce \/ MergeAgain

SpecMerge == MergeInit /\ [][MergeNext]_vars

-----------------------------------------------------------------------------
(* The read path: get_index_data of the two data_fetcher.py files.  Dates  *)
(* are day numbers; a long table is stood for by rows at the offsets below *)
(* from its latest row.                                                    *)

_LONG_PERIODS == {"1y", "3y", "5y", "10y", "max", "1Y", "3Y", "5Y", "10Y", "MAX"}

Periods == {"1mo", "3mo", "6mo", "1y", "3y", "5y", "10y", "max", "1Y"}

lower(p) == IF p = "1Y" THEN "1y" ELSE p

\* period_days.get(period.lower()), 0 for a period the dict lacks
period_days(p) ==
    CASE lower(p) = "1mo" -> 30
      [] lower(p) = "3mo" -> 90
      [] lower(p) = "6mo" -> 180
      [] lower(p) = "1y"  -> 365
      [] lower(p) = "3y"  -> 1095
      [] lower(p) = "5y"  -> 1825
      [] lower(p) = "10y" -> 3650
      [] OTHER -> 0

\* the rows of t that `keep` holds of, in order
RECURSIVE SelectRows(_, _)
SelectRows(t, cutoff) ==
    IF t = <<>> THEN <<>>
    ELSE IF Head(t)[1] >= cutoff
         THEN <<Head(t)>> \o SelectRows(Tail(t), cutoff)
         ELSE SelectRows(Tail(t), cutoff)

_filter_by_period(df, period) ==
    LET days == period_days(period)
    IN  IF days # 0 /\ Len(df) > 0
        THEN SelectRows(df, MaxIndex(df) - days)
        ELSE df

SynthEnd == 10000       \* the day datetime(2026, 2, 6) of _date_index

\* days before the latest row at which the model keeps a row of a table
DayOffsets == {0, 30, 31, 365, 366, 1825}

\* the rows at the offsets `offs` before day `end`, oldest first, value v
RECURSIVE RowsAt(_, _, _)
RowsAt(offs, end, v) ==
    IF offs = {} THEN <<>>
    ELSE LET far == CHOOSE x \in offs : \A y \in offs : y <= x
         IN  <<<<end - far, v>>>> \o RowsAt(offs \ {far}, end, v)

\* _date_index(1825): the business days of the 1825 days up to SynthEnd
_date_index(days) == RowsAt({x \in DayOffsets : x <= days}, SynthEnd, 0)

\* seed_map.get(ticker, (1000, 99))[1]
seed_map(ticker) == IF ticker = "^GSPC" THEN 42 ELSE 99

\* the mock fallback of get_index_data: a seeded walk over _date_index(1825)
Synthetic(ticker) ==
    LET idx == _date_index(1825)
    IN  [i \in DOMAIN idx |-> <<idx[i][1], seed_map(ticker)>>]

\* get_index_data of src/data_fetcher.py: [df, from]
get_index_data(pq, ticker, period) ==
    IF period \in _LONG_PERIODS /\ pq.some
    THEN [df |-> _filter_by_period(pq.t, period), from |-> "cache"]
    ELSE [df |-> Synthetic(ticker), from |-> "synthetic"]

\* get_index_data of src/src/data_fetcher.py: [df, from]
get_index_data_src(pq, ticker, period) ==
    IF pq.some
    THEN [df |-> _filter_by_period(pq.t, period), from |-> "cache"]
    ELSE [df |-> <<>>, from |-> "none"]

\* the files ingest_market leaves: the rows of one history(period="5y"), none empty
CacheFiles ==
    {NoDf} \cup
    {Df(RowsAt(offs \cup {0}, SynthEnd + 100, 1)) :
        offs \in {o \in SUBSET DayOffsets : Cardinality(o \cup {0}) <= MaxRows}}

ReadInit ==
    /\ IngestInit /\ MergeIdle /\ NameIdle /\ FileIdle /\ RestIdle
    /\ rdCache \in CacheFiles
    /\ rdTicker \in {"^GSPC", "^VIX"}
    /\ rdPeriod \in Periods
    /\ rdVariant \in {"root", "src"}
    /\ rdOut = NoDf
    /\ rdFrom = None

\* a page calls get_index_data(ticker, period) of src/data_fetcher.py
ReadRoot ==
    /\ rdVariant = "root" /\ rdFrom = None
    /\ LET r == get_index_data(rdCache, rdTicker, rdPeriod)
       IN  rdOut' = Df(r.df) /\ rdFrom' = r.from
    /\ UNCHANGED <<rdCache, rdTicker, rdPeriod, rdVariant, ingestVars, mergeVars,
                   nameVars, fileVars, restVars>>

\* a page calls get_index_data(ticker, period) of src/src/data_fetcher.py
ReadSrc ==
    /\ rdVariant = "src" /\ rdFrom = None
    /\ LET r == get_index_data_src(rdCache, rdTicker, rdPeriod)
       IN  rdOut' = Df(r.df) /\ rdFrom' = r.from
    /\ UNCHANGED <<rdCache, rdTicker, rdPeriod, rdVariant, ingestVars, mergeVars,
                   nameVars, fileVars, restVars>>

ReadNext == ReadRoot \/ ReadSrc

SpecRead == ReadInit /\ [][ReadNext]_vars

-----------------------------------------------------------------------------
(* File naming: _save_parquet builds the path of a key from its category   *)
(* and _sanitize_filename(name).  Names are sequences of characters.       *)

NameChars == {"^", "=", "/", " ", "_", "X"}

Names == UNION {[1..n -> NameChars] : n \in 1..MaxName}

\* str.replace(old, new) on a sequence of characters, new a sequence
RECURSIVE replace(_, _, _)
replace(s, old, new) ==
    IF s = <<>> THEN <<>>
    ELSE (IF Head(s) = old THEN new ELSE <<Head(s)>>) \o replace(Tail(s), old, new)

_sanitize_filename(name) ==
    replace(replace(replace(replace(name, "^", <<>>), "=", <<"_">>), "/", <<"_">>),
            " ", <<"_">>)

NameInit ==
    /\ IngestInit /\ MergeIdle /\ ReadIdle /\ FileIdle /\ RestIdle
    /\ nameA \in Names
    /\ nameB \in Names
    /\ safeA = <<>> /\ safeB = <<>> /\ named = FALSE

\* _save_parquet of two keys of one category: safe_name of each
SafeNames ==
    /\ ~named
    /\ safeA' = _sanitize_filename(nameA)
    /\ safeB' = _sanitize_filename(nameB)
    /\ named' = TRUE
    /\ UNCHANGED <<nameA, nameB, ingestVars, mergeVars, readVars, fileVars, restVars>>

NameNext == SafeNames

SpecName == NameInit /\ [][NameNext]_vars

\* C11: filename sanitization is injective within a category: two distinct
\* names get two distinct filenames, so two keys never share a file
C11_SanitizeInjective == (named /\ nameA # nameB) => safeA # safeB

-----------------------------------------------------------------------------
(* File writes: _save_parquet, _save_manifest and _save_rate_limits open   *)
(* the final path for writing and write the document into it; the process  *)
(* may be killed at any point, a dashboard may read a Parquet file at any  *)
(* point, and the next run loads what the write left.                      *)

FileKinds == {"parquet", "manifest", "rate_limits"}

\* the complete document d as the chunks a write of it puts out
Doc(d) == [i \in 1..MaxChunks |-> <<d, i>>]

OldFile == [exists |-> TRUE, content |-> Doc("old")]

\* pd.read_parquet / json.load of the content: the document, if it is whole
Parses(content) == content \in {Doc("old"), Doc("new")}

\* _load_parquet of data_fetcher.py: None for no file and for a failed read
_load_parquet(f) ==
    IF ~f.exists THEN [kind |-> "none", content |-> <<>>]
    ELSE IF Parses(f.content) THEN [kind |-> "doc", content |-> f.content]
    ELSE [kind |-> "none", content |-> <<>>]

\* _load_existing_parquet, _load_manifest, _load_rate_limits of ingestor.py:
\* no file gives None / {}, a file is read outside any try
LoadOrRaise(f) ==
    IF ~f.exists THEN [kind |-> "nofile", content |-> <<>>]
    ELSE IF Parses(f.content) THEN [kind |-> "doc", content |-> f.content]
    ELSE [kind |-> "raises", content |-> <<>>]

FileInit ==
    /\ IngestInit /\ MergeIdle /\ ReadIdle /\ NameIdle /\ RestIdle
    /\ fsKind \in FileKinds
    /\ fsOld \in {NoFile, OldFile}
    /\ fsFile = fsOld
    /\ wpc = "start"
    /\ fsSeen = NotRead /\ fsLoaded = NotRead

FileFrame ==
    UNCHANGED <<fsKind, fsOld, ingestVars, mergeVars, readVars, nameVars, restVars>>

\* open(path, "w") / to_parquet(path): the path exists and is empty
SaveOpen ==
    /\ wpc = "start"
    /\ fsFile' = [exists |-> TRUE, content |-> <<>>]
    /\ wpc' = "writing"
    /\ UNCHANGED <<fsSeen, fsLoaded>> /\ FileFrame

\* the next part of the document reaches the file; after the last the file
\* is closed
SaveWrite ==
    /\ wpc = "writing"
    /\ fsFile' = [fsFile EXCEPT !.content = Append(@, <<"new", Len(@) + 1>>)]
    /\ wpc' = IF Len(fsFile.content) + 1 = MaxChunks THEN "closed" ELSE "writing"
    /\ UNCHANGED <<fsSeen, fsLoaded>> /\ FileFrame

\* the run crashes or is killed: before the write, in it, or after it
Kill ==
    /\ wpc \in {"start", "writing", "closed"}
    /\ wpc' = "killed"
    /\ UNCHANGED <<fsFile, fsSeen, fsLoaded>> /\ FileFrame

\* a dashboard page reads the key while the ingestor runs
ConcurrentRead ==
    /\ fsKind = "parquet"
    /\ wpc \in {"start", "writing", "closed"}
    /\ fsSeen = NotRead
    /\ fsSeen' = _load_parquet(fsFile)
    /\ UNCHANGED <<fsFile, wpc, fsLoaded>> /\ FileFrame

\* the next run starts and loads the file
NextRunLoad ==
    /\ wpc \in {"closed", "killed"}
    /\ fsLoaded = NotRead
    /\ fsLoaded' = LoadOrRaise(fsFile)
    /\ UNCHANGED <<fsFile, wpc, fsSeen>> /\ FileFrame

FileNext == SaveOpen \/ SaveWrite \/ Kill \/ ConcurrentRead \/ NextRunLoad

SpecFiles == FileInit /\ [][FileNext]_vars

\* C12: a cache write is atomic for readers: a read of key K that runs while a
\* write of K is in progress returns the complete previous table (nothing, if
\* there was none) or the complete new table
C12_WriteAtomic ==
    (fsKind = "parquet" /\ fsSeen # NotRead) =>
       fsSeen \in {_load_parquet(fsOld), [kind |-> "doc", content |-> Doc("new")]}

\* C13: whatever point a run crashes or is killed at, manifest.json and
\* rate_limits.json are each absent or a complete JSON document, the previous
\* one or the new one, and the load of the next run does not fail to parse
C13_JsonAlwaysParses ==
    (fsKind \in {"manifest", "rate_limits"} /\ wpc = "killed") =>
       /\ fsFile.exists => fsFile.content \in {Doc("old"), Doc("new")}
       /\ fsLoaded.kind # "raises"

\* C14: if a run is interrupted at any point, a key that had a cached table
\* before the run still has a complete readable table: the prior one or the
\* new one
C14_InterruptKeepsTable ==
    (fsKind = "parquet" /\ wpc = "killed" /\ fsOld.exists) =>
       /\ fsFile.exists
       /\ fsFile.content \in {Doc("old"), Doc("new")}
       /\ fsLoaded.kind # "raises"

-----------------------------------------------------------------------------
(* The synthetic generator of data_fetcher.py: the mock fallback of a read  *)
(* function seeds np.random.RandomState and draws the series from it.  The  *)
(* same call is made twice in one interpreter process and once in another.  *)

\* str.__hash__ is keyed by a secret the interpreter draws when it starts
\* (PYTHONHASHSEED is not set anywhere in the repository)
HashSalts == 0..2

SeedBits == 5       \* the width of a seed: stands for the 31 of hash(...) % 2**31

\* the characters of a key as one number
StrCode(s) ==
    CASE s = "NY.GDP.MKTP.CD" -> 11
      [] s = "FP.CPI.TOTL.ZG" -> 23
      [] s = "US"             -> 5
      [] s = "JP"             -> 14
      [] s = "^GSPC"          -> 42
      [] s = "^VIX"           -> 77

\* hash(s) of a str in a process whose secret is `salt`
str_hash(salt, s) == (StrCode(s) + 1) * (2 * salt + 1) * 37 + salt * 101

\* the i-th draw of np.random.RandomState(seed): fixed by the seed
Draw(seed, i) == (seed * 31 + i * 17) % 101

\* the rows <<index, draw>> of a series over the years first..final
SeededSeries(first, final, seed) ==
    [i \in 1..(final - first + 1) |-> <<first + i - 1, Draw(seed, i)>>]

\* the mock fallback of get_wb_indicator(indicator, countries, start_year)
get_wb_indicator(salt, indicator, start_year) ==
    SeededSeries(start_year, 2025, str_hash(salt, indicator) % 2^SeedBits)

\* the mock fallback of get_imf_bop(country_code): the values come from
\* _mean_reverting(seed=hash(country_code) % 2**31)
get_imf_bop(salt, country_code) ==
    SeededSeries(2005, 2025, str_hash(salt, country_code) % 2^SeedBits)

SynFns == {"get_index_data", "get_wb_indicator", "get_imf_bop"}

SynArgs(fn) ==
    CASE fn = "get_index_data"   -> {"^GSPC", "^VIX"}
      [] fn = "get_wb_indicator" -> {"NY.GDP.MKTP.CD", "FP.CPI.TOTL.ZG"}
      [] fn = "get_imf_bop"      -> {"US", "JP"}

\* the windows of the call: start_year, or the period's days for get_index_data
SynWindows(fn) == IF fn = "get_wb_indicator" THEN {2023, 2024} ELSE {30, 90}

\* the table the call returns on a cache miss, in a process with secret `salt`
SynCall(salt) ==
    CASE syFn = "get_index_data"   -> Synthetic(syArg)
      [] syFn = "get_wb_indicator" -> get_wb_indicator(salt, syArg, syWin)
      [] syFn = "get_imf_bop"      -> get_imf_bop(salt, syArg)

SynInit ==
    /\ IngestInit /\ MergeIdle /\ ReadIdle /\ NameIdle /\ FileIdle /\ ConcIdle /\ ClsIdle
    /\ RetryIdle
    /\ syFn \in SynFns
    /\ syArg \in SynArgs(syFn)
    /\ syWin \in SynWindows(syFn)
    /\ sySalt \in [1..2 -> HashSalts]
    /\ syOut = <<>>

SynFrame ==
    UNCHANGED <<syFn, syArg, syWin, sySalt, ingestVars, mergeVars, readVars, nameVars,
                fileVars, concVars, clsVars, retryVars>>

\* the first call, in process 1
SynFirst ==
    /\ Len(syOut) = 0
    /\ syOut' = <<SynCall(sySalt[1])>>
    /\ SynFrame

\* the same call again in process 1
SynAgain ==
    /\ Len(syOut) = 1
    /\ syOut' = Append(syOut, SynCall(sySalt[1]))
    /\ SynFrame

\* the same call in process 2, another run of the interpreter
SynOther ==
    /\ Len(syOut) = 2
    /\ syOut' = Append(syOut, SynCall(sySalt[2]))
    /\ SynFrame

SynNext == SynFirst \/ SynAgain \/ SynOther

SpecSynth == SynInit /\ [][SynNext]_vars

\* C21: the synthetic generator is deterministic: for a key with no cache, two
\* calls of a read function with the same key and window return the same table,
\* in one process and in two separate processes
C21_SyntheticDeterministic ==
    /\ Len(syOut) >= 2 => syOut[2] = syOut[1]
    /\ Len(syOut) = 3 => syOut[3] = syOut[1]

-----------------------------------------------------------------------------
(* Two ingestion runs at once: two processes of ingestor.py that share the  *)
(* data directory.  Nothing in main serializes them.  Each run is main with *)
(* --source: load the manifest, ingest the keys of the source, save.        *)

Runs == 1..2

ConcSources == {"fred", "market", "policy"}

\* a save that keeps the entries the file holds and the dict lacks
_save_manifest_merging(disk, m) ==
    [k \in Keys |-> IF m[k].present THEN m[k] ELSE disk[k]]

\* _save_manifest: open(MANIFEST_FILE, "w") and json.dump(manifest): the
\* file becomes the dict of the run, whatever it held
_save_manifest(disk, m) == m

ConcInit ==
    /\ IngestInit /\ MergeIdle /\ ReadIdle /\ NameIdle /\ FileIdle /\ SynIdle /\ ClsIdle
    /\ RetryIdle
    /\ cDisk = [k \in Keys |-> NoManifestEntry]
    /\ cMem = [p \in Runs |-> [k \in Keys |-> NoManifestEntry]]
    /\ cPc = [p \in Runs |-> "start"]
    /\ cSrc \in [Runs -> ConcSources]
    /\ cPos = [p \in Runs |-> 1]
    /\ cSaves = <<>>
    /\ cSeen = [p \in Runs |-> 0]

ConcFrame ==
    UNCHANGED <<ingestVars, mergeVars, readVars, nameVars, fileVars, synVars, clsVars,
                retryVars>>

\* main of run p: manifest = _load_manifest()
ConcLoad(p) ==
    /\ cPc[p] = "start"
    /\ cMem' = [cMem EXCEPT ![p] = cDisk]
    /\ cSeen' = [cSeen EXCEPT ![p] = Len(cSaves)]
    /\ cPc' = [cPc EXCEPT ![p] = "keys"]
    /\ UNCHANGED <<cDisk, cSrc, cPos, cSaves>>
    /\ ConcFrame

\* the adapter of run p ingests its next key: the fetch gives rows, the table
\* is saved and _update_manifest records the key in the dict of the run
ConcIngest(p) ==
    /\ cPc[p] = "keys"
    /\ LET keys == SourceKeys(cSrc[p])
           key  == <<cSrc[p], keys[cPos[p]]>>
       IN  /\ cMem' = [cMem EXCEPT
                         ![p] = _update_manifest(@, key, Df(Rows(HIST_START, 1)), None)]
           /\ IF cPos[p] < Len(keys)
              THEN cPos' = [cPos EXCEPT ![p] = @ + 1] /\ cPc' = cPc
              ELSE cPos' = cPos /\ cPc' = [cPc EXCEPT ![p] = "save"]
    /\ UNCHANGED <<cDisk, cSrc, cSaves, cSeen>>
    /\ ConcFrame

\* main of run p: _save_manifest(manifest)
ConcSave(p) ==
    /\ cPc[p] = "save"
    /\ cDisk' = _save_manifest(cDisk, cMem[p])
    /\ cSaves' = Append(cSaves, p)
    /\ cPc' = [cPc EXCEPT ![p] = "done"]
    /\ UNCHANGED <<cMem, cSrc, cPos, cSeen>>
    /\ ConcFrame

ConcNext == \E p \in Runs : ConcLoad(p) \/ ConcIngest(p) \/ ConcSave(p)

SpecConc == ConcInit /\ [][ConcNext]_vars

\* the keys run p recorded in its manifest
Recorded(p) == {<<cSrc[p], n>> : n \in Range(SourceKeys(cSrc[p]))}

\* C22: when two runs execute concurrently, each loading the manifest at its
\* start and rewriting it at its end, the entries the other run recorded are
\* lost: once the run that loaded before the other's save has saved last, the
\* manifest on disk holds none of the keys only the other run ingested
C22_LostUpdate ==
    \A p, q \in Runs :
       (p # q /\ cPc[p] = "done" /\ cPc[q] = "done"
          /\ cSaves = <<q, p>> /\ cSeen[p] = 0) =>
             /\ \A k \in Recorded(q) \ Recorded(p) : ~cDisk[k].present
             /\ \A k \in Recorded(p) : cDisk[k].present

\* both runs have ended, the first saver ingested keys the second did not, and
\* the manifest on disk lacks them
C22_Witness ==
    /\ cSaves = <<1, 2>> /\ cSeen[2] = 0 /\ cPc[1] = "done" /\ cPc[2] = "done"
    /\ Recorded(1) \ Recorded(2) # {}
    /\ \E k \in Recorded(1) : cMem[1][k].present /\ ~cDisk[k].present

-----------------------------------------------------------------------------
(* Classification of an error text on its own: _is_rate_limit_error on the  *)
(* texts below, written in lower case, in capitals or with a capital first  *)

\* lower-case error texts: the phrases upstreams use for throttling, and
\* phrases close to them
ClsCores ==
    { <<"4","2","9">>,
      <<"r","a","t","e"," ","l","i","m","i","t">>,
      <<"q","u","o","t","a"," ","e","x","c","e","e","d","e","d">>,
      <<"t","o","o"," ","m","a","n","y"," ","r","e","q","u","e","s","t","s">>,
      <<"t","h","r","o","t","t","l","e">>,
      <<"l","i","m","i","t"," ","e","x","c","e","e","d","e","d">>,
      <<"t","h","r","o","t","t","l","i","n","g">>,
      <<"t","h","r","o","t","t","l","e","d">>,
      <<"r","a","t","e","-","l","i","m","i","t">>,
      <<"t","o","o"," ","m","a","n","y">>,
      <<"q","u","o","t","a">>,
      <<"5","0","0">>,
      <<"t","i","m","e","o","u","t">>,
      <<>>,
      <<"e","x","c","e","e","d","e","d"," ","l","i","m","i","t">>,
      <<"4","2"," ","9">> }

ClsPrefixes == {<<>>, <<"h","t","t","p"," ">>}

ClsSuffixes == {<<>>, <<" ","e","r","r","o","r">>}

Upper(c) ==
    CASE c = "a" -> "A" [] c = "b" -> "B" [] c = "c" -> "C" [] c = "d" -> "D"
      [] c = "e" -> "E" [] c = "f" -> "F" [] c = "g" -> "G" [] c = "h" -> "H"
      [] c = "i" -> "I" [] c = "j" -> "J" [] c = "k" -> "K" [] c = "l" -> "L"
      [] c = "m" -> "M" [] c = "n" -> "N" [] c = "o" -> "O" [] c = "p" -> "P"
      [] c = "q" -> "Q" [] c = "r" -> "R" [] c = "s" -> "S" [] c = "t" -> "T"
      [] c = "u" -> "U" [] c = "v" -> "V" [] c = "w" -> "W" [] c = "x" -> "X"
      [] c = "y" -> "Y" [] c = "z" -> "Z"
      [] OTHER -> c

\* the text as an upstream may write it: as it is, in capitals, capital first
Cased(str) ==
    {str, [i \in DOMAIN str |-> Upper(str[i])],
     [i \in DOMAIN str |-> IF i = 1 THEN Upper(str[i]) ELSE str[i]]}

ClsInit ==
    /\ IngestInit /\ MergeIdle /\ ReadIdle /\ NameIdle /\ FileIdle /\ SynIdle /\ ConcIdle
    /\ RetryIdle
    /\ clsBase \in {p \o c \o x : p \in ClsPrefixes, c \in ClsCores, x \in ClsSuffixes}
    /\ clsText \in Cased(clsBase)
    /\ clsOut = "unset"

\* the except clause of an adapter asks _is_rate_limit_error(e), str(e) = clsText
Classify ==
    /\ clsOut = "unset"
    /\ clsOut' = IF MatchesSignal(clsText) THEN "rate_limited" ELSE "hard"
    /\ UNCHANGED <<clsBase, clsText, ingestVars, mergeVars, readVars, nameVars, fileVars,
                   synVars, concVars, retryVars>>

ClsNext == Classify

SpecClass == ClsInit /\ [][ClsNext]_vars

\* sig occurs in str as a run of consecutive characters
Occurs(sig, str) ==
    \E i \in 1..(Len(str) + 1) :
       i + Len(sig) - 1 <= Len(str) /\ SubSeq(str, i, i + Len(sig) - 1) = sig

\* the throttling signals the specification lists
SpecSignals ==
    { <<"4","2","9">>,
      <<"r","a","t","e"," ","l","i","m","i","t">>,
      <<"q","u","o","t","a"," ","e","x","c","e","e","d","e","d">>,
      <<"t","o","o"," ","m","a","n","y"," ","r","e","q","u","e","s","t","s">>,
      <<"t","h","r","o","t","t","l","e">> }

\* the signals of the amended claim
AmendedSignals ==
    { <<"4","2","9">>,
      <<"r","a","t","e"," ","l","i","m","i","t">>,
      <<"q","u","o","t","a"," ","e","x","c","e","e","d","e","d">>,
      <<"t","o","o"," ","m","a","n","y"," ","r","e","q","u","e","s","t","s">>,
      <<"t","h","r","o","t","t","l">>,
      <<"l","i","m","i","t"," ","e","x","c","e","e","d","e","d">> }

\* C23 as stated: an error is classified as rate-limited if and only if its
\* lower-cased text contains one of 429, rate limit, quota exceeded, too many
\* requests, throttle; every other error is classified as a hard error
C23_SpecSignalsOnly ==
    clsOut # "unset" =>
       (clsOut = "rate_limited" <=> \E sig \in SpecSignals : Occurs(sig, clsBase))

\* C23 amended: an error is classified as rate-limited if and only if its
\* lower-cased text contains one of 429, rate limit, quota exceeded, too many
\* requests, throttl, limit exceeded; every other error is a hard error
C23_Classification ==
    clsOut # "unset" =>
       /\ clsOut \in {"rate_limited", "hard"}
       /\ clsOut = "rate_limited" <=> \E sig \in AmendedSignals : Occurs(sig, clsBase)

\* a text in capitals that holds only the signal "limit exceeded" was
\* classified as rate-limited
C23_Witness ==
    /\ clsOut = "rate_limited"
    /\ clsText # clsBase
    /\ Occurs(<<"l","i","m","i","t"," ","e","x","c","e","e","d","e","d">>, clsBase)
    /\ \A sig \in SpecSignals : ~Occurs(sig, clsBase)

-----------------------------------------------------------------------------
(* The network fetches of the adapters on their own: _fetch_imf_compact,    *)
(* _fetch_federal_register, and the client calls the other adapters make    *)
(* (fred_client.get_series, wb.data.DataFrame, yf.Ticker(...).history).     *)

max_retries == 3    \* _fetch_imf_compact(..., max_retries: int = 3)

max_pages == 2      \* _fetch_federal_register(..., max_pages), shortened from 10

Fetchers == {"_fetch_imf_compact", "_fetch_federal_register", "get_series"}

\* the answers of the upstream: "ok", or the exception the request raises
Answers == {"ok", "E500", "E429"}

RetryInit ==
    /\ IngestInit /\ MergeIdle /\ ReadIdle /\ NameIdle /\ FileIdle /\ SynIdle /\ ConcIdle
    /\ ClsIdle
    /\ rtFn \in Fetchers
    /\ rtPlan \in [1..max_retries -> Answers]
    /\ rtPages \in (IF rtFn = "_fetch_federal_register" THEN 1..max_pages ELSE {1})
    /\ rtTry = 0
    /\ rtSlept = <<>>
    /\ rtPc = "run"
    /\ rtErr = None

RetryFrame ==
    UNCHANGED <<rtFn, rtPlan, rtPages, ingestVars, mergeVars, readVars, nameVars,
                fileVars, synVars, concVars, clsVars>>

\* _fetch_imf_compact, one pass of `for attempt in range(max_retries)`:
\* attempt = rtTry counts from 0
FetchImfAttempt ==
    /\ rtFn = "_fetch_imf_compact" /\ rtPc = "run"
    /\ rtTry < max_retries
    /\ rtTry' = rtTry + 1
    /\ IF rtPlan[rtTry + 1] = "ok"
       THEN rtPc' = "returned" /\ UNCHANGED <<rtSlept, rtErr>>
       ELSE IF rtTry < max_retries - 1
            THEN /\ rtSlept' = Append(rtSlept, 2 ^ (rtTry + 1))
                 /\ UNCHANGED <<rtPc, rtErr>>
            ELSE /\ rtPc' = "raised"
                 /\ rtErr' = rtPlan[rtTry + 1]
                 /\ UNCHANGED rtSlept
    /\ RetryFrame

\* _fetch_federal_register, one pass of `for page in range(1, max_pages + 1)`:
\* requests.get and raise_for_status stand outside any try (the pacing sleep
\* of half a second between two pages is not a wait before a retry)
FetchRegisterPage ==
    /\ rtFn = "_fetch_federal_register" /\ rtPc = "run"
    /\ rtTry < max_pages
    /\ rtTry' = rtTry + 1
    /\ IF rtPlan[rtTry + 1] = "ok"
       THEN /\ rtPc' = IF rtTry + 1 >= rtPages \/ rtTry + 1 = max_pages
                       THEN "returned" ELSE "run"
            /\ UNCHANGED rtErr
       ELSE /\ rtPc' = "raised"
            /\ rtErr' = rtPlan[rtTry + 1]
    /\ UNCHANGED rtSlept
    /\ RetryFrame

\* fred_client.get_series / wb.data.DataFrame / history(period="5y"): the one
\* call the adapter makes inside its try
FetchClientCall ==
    /\ rtFn = "get_series" /\ rtPc = "run"
    /\ rtTry' = rtTry + 1
    /\ IF rtPlan[rtTry + 1] = "ok"
       THEN rtPc' = "returned" /\ UNCHANGED rtErr
       ELSE rtPc' = "raised" /\ rtErr' = rtPlan[rtTry + 1]
    /\ UNCHANGED rtSlept
    /\ RetryFrame

RetryNext == FetchImfAttempt \/ FetchRegisterPage \/ FetchClientCall

SpecRetry == RetryInit /\ [][RetryNext]_vars

\* the requests made so far that failed
Failed == {i \in 1..rtTry : rtPlan[i] # "ok"}

\* C28: every network fetch of an adapter that fails is retried a bounded
\* number of times with exponentially growing waits before the failure is
\* reported: a fetch that has ended made at most max_retries failing requests,
\* waited 2, 4, 8, ... seconds after each failure but the last allowed one, and
\* raised only after max_retries failures, the last error
C28_BoundedRetry ==
    rtPc \in {"returned", "raised"} =>
       /\ Cardinality(Failed) <= max_retries
       /\ rtSlept = [i \in 1..Len(rtSlept) |-> 2 ^ i]
       /\ Len(rtSlept) = IF rtPc = "raised" THEN max_retries - 1 ELSE Cardinality(Failed)
       /\ rtPc = "raised" =>
             /\ Cardinality(Failed) = max_retries
             /\ rtErr = rtPlan[rtTry]

-----------------------------------------------------------------------------
(* Properties of the orchestrator and the ledger, checked under Spec *)

AllMode == pc # "idle" /\ args.source = "all"

Phase(p) ==
    CASE p = "dispatch" -> 0 [] p = "keys" -> 1 [] p = "raised" -> 2
      [] p = "done" -> 3 [] OTHER -> 4

\* C1, in every state of a run over all sources: the run has not died; main has
\* a next step wherever it stands (at the dispatch, in its except clause, at its
\* end) and an adapter in its loop stands at one of its keys; a source is invoked
\* once when the loop has reached it, not before and not again; at the end all
\* sources were invoked, the manifest is on disk and the ok and error counts are
\* reported
C1_State ==
    AllMode =>
      /\ pc # "died"
      /\ pc # "keys" => ENABLED RunStep
      /\ pc = "keys" => keyPos \in DOMAIN SourceKeys(CurSource)
      /\ \A i \in 1..Len(SOURCES) :
            invoked[SOURCES[i]] =
               IF i < srcPos \/ (i = srcPos /\ pc \in {"keys", "raised"}) THEN 1 ELSE 0
      /\ pc = "done" =>
            /\ srcPos = Len(SOURCES) + 1
            /\ manifestDisk = manifest
            /\ summary = [printed |-> TRUE, ok |-> CountStatus(manifestDisk, "ok"),
                          err |-> CountStatus(manifestDisk, "error")]

\* C1, every step of a run over all sources that has not ended moves the run on:
\* to a later source, a later key of the source, or a later phase of the key
C1_Step ==
    (AllMode /\ pc # "done") =>
      /\ pc' # "idle"
      /\ \/ srcPos' > srcPos
         \/ srcPos' = srcPos /\ keyPos' > keyPos
         \/ srcPos' = srcPos /\ keyPos' = keyPos /\ Phase(pc') > Phase(pc)

\* C1: in a run over all sources (full or incremental) a hard error or a
\* rate-limit hit in one source never stops the run: every source after it in
\* SOURCE_FUNCTIONS is still invoked exactly once, and the run ends by saving
\* the manifest and reporting the ok and error counts
C1_AllSourcesRun == [](C1_State) /\ [][C1_Step]_vars

\* a run over all sources has ended although an exception left ingest_fred
C1_Witness ==
    /\ pc = "done" /\ args.source = "all"
    /\ rate_limits[<<"fred", "ALL">>].status = "rate_limited"
    /\ rate_limits[<<"fred", "ALL">>].hit_at = today
    /\ \A s \in SourceSet : invoked[s] = 1
    /\ summary.printed

\* C2: when a key that has an entry in the rate-limit ledger is next ingested
\* successfully, its entry is removed: the ledger saved at the end of that run
\* no longer holds the key
C2_ClearedOnSuccess ==
    pc = "done" =>
      \A k \in Keys :
         (manifest[k].status = "ok" /\ manifest[k].last_updated = today)
            => ledgerDisk[k].status = "absent"

Limited(l, k) == l[k].status = "rate_limited"

C4_ResumesFromCursor ==
    (last.outcome # None /\ last.limited) =>
      /\ last.cursor # NoDate
      /\ last.start = last.cursor
      /\ (last.before.some /\ Len(last.before.t) > 0)
            => last.start > MaxIndex(last.before.t)

\* C7: when the upstream returns no rows for a key, the attempt leaves the cache
\* file of the key (and every other cache file) as it was
C7_EmptyLeavesCache ==
    [][(attempts' = attempts + 1 /\ last'.outcome = "empty")
          => (cache'[last'.key] = cache[last'.key] /\ cache' = cache)]_vars

\* a key of fred, market or imf with a cached table got an empty response
C7_Witness ==
    /\ last.outcome = "empty"
    /\ last.key[1] \in {"fred", "market", "imf"}
    /\ last.before.some /\ Len(last.before.t) > 0
    /\ cache[last.key] = last.before

\* C15: after any sequence of _update_manifest calls every manifest entry has
\* status ok or error, and an error field if and only if its status is error,
\* for every error text, the empty one included
C15_EntryShape ==
    \A k \in Keys :
       manifest[k].present =>
          /\ manifest[k].status \in {"ok", "error"}
          /\ manifest[k].error # None <=> manifest[k].status = "error"

\* C16: every per-key failure of a run (an exception raised while fetching or
\* saving the key, a throttling error included) is caught and is a manifest
\* entry of the key with status error, in memory and in the manifest the run saves
C16_FailureInManifest ==
    last.outcome = "raise" =>
       /\ pc \notin {"raised", "died"}
       /\ manifest[last.key].present
       /\ manifest[last.key].status = "error"
       /\ manifest[last.key].last_updated = today
       /\ pc = "done" => manifestDisk[last.key] = manifest[last.key]

\* C17: every run, in each mode, reaches its end whatever exception an adapter
\* raises: a run that has stopped has saved the manifest and printed the counts
C17_EveryRunEnds ==
    pc \in {"done", "died"} =>
       /\ manifestDisk = manifest
       /\ summary.printed

C19_NoCredentialsSynthetic ==
    [][(pc = "dispatch" /\ pc' = "dispatch" /\ srcPos' = srcPos + 1) =>
          \A n \in Range(SourceKeys(CurSource)) :
             /\ cache'[<<CurSource, n>>].some
             /\ manifest'[<<CurSource, n>>].present
             /\ manifest'[<<CurSource, n>>].status = "ok"
             /\ "source" \in DOMAIN manifest'[<<CurSource, n>>]
      ]_vars

TimeIndexed == {"fred", "market", "semi"}

\* C20: in incremental update mode the new cache of a time-indexed key holds
\* every row index that was cached before the update
C20_UpdateKeepsRows ==
    (last.outcome = "ok" /\ args.update /\ last.key[1] \in TimeIndexed
        /\ last.before.some) =>
       IndexOf(last.before.t) \subseteq IndexOf(cache[last.key].t)

\* C24: a record is added to the rate-limit ledger only for an error whose text
\* matches a throttling signal: every record with status rate_limited, in the
\* dict of the run and in rate_limits.json, holds the text of a throttling error
C24_LedgerOnlyThrottling ==
    \A k \in LedgerKeys :
       /\ rate_limits[k].status = "rate_limited"
             => _is_rate_limit_error(rate_limits[k].error)
       /\ ledgerDisk[k].status = "rate_limited"
             => _is_rate_limit_error(ledgerDisk[k].error)

\* C25: within one source a hard (non-throttling) error on one key does not
\* block the other keys: the step that meets it records the error in the
\* manifest entry of that key and moves the adapter to its next key (or, after
\* the last key, returns to main)
C25_HardErrorDoesNotBlock ==
    [][(attempts' = attempts + 1 /\ last'.outcome = "raise"
          /\ ~_is_rate_limit_error(last'.error)) =>
          /\ manifest'[last'.key].present
          /\ manifest'[last'.key].status = "error"
          /\ manifest'[last'.key].error = last'.error
          /\ manifest'[last'.key].last_updated = today
          /\ IF keyPos < Len(SourceKeys(CurSource))
             THEN pc' = "keys" /\ srcPos' = srcPos /\ keyPos' = keyPos + 1
             ELSE pc' = "dispatch" /\ srcPos' = srcPos + 1
      ]_vars

\* C26: an incremental run on a time-indexed key whose cache ends at date T
\* requests from the upstream only data after T, the window (T, now]; when the
\* key has no cache it requests the full history from the historical start date
C26_FetchAfterCacheEnd ==
    (last.outcome # None /\ args.update /\ last.key[1] \in TimeIndexed) =>
       IF last.before.some /\ Len(last.before.t) > 0
       THEN last.start > MaxIndex(last.before.t) /\ last.start <= today
       ELSE last.start = HIST_START

\* the adapters whose handler returns on a rate limit
ReturningAdapters == {"fred", "world_bank", "market", "imf", "semi"}

\* the step in which a key of one of these adapters is classified rate-limited
LimitStep ==
    /\ attempts' = attempts + 1
    /\ last'.outcome = "raise"
    /\ _is_rate_limit_error(last'.error)
    /\ last'.key[1] \in ReturningAdapters

\* no key is attempted after a key of its source was rate-limited in this run
NoKeyAfterLimit ==
    (attempts' = attempts + 1 /\ last'.key[1] \in ReturningAdapters) =>
       \A i \in 1..(keyPos - 1) :
          LET k == <<CurSource, SourceKeys(CurSource)[i]>>
          IN  ~(Limited(rate_limits, k) /\ rate_limits[k].hit_at = today)

\* C29 as stated: once a key of ingest_fred, ingest_world_bank, ingest_market,
\* ingest_imf or ingest_semi is classified rate-limited, the ledger is written
\* to disk and the source returns: no key after it in that source gets a
\* fetch, a cache write or a manifest update in that run
C29_LedgerAlwaysWritten ==
    /\ [][LimitStep =>
            /\ Limited(rate_limits', last'.key)
            /\ ledgerDisk' = rate_limits'
            /\ pc' = "dispatch" /\ srcPos' = srcPos + 1
            /\ manifest' = manifest /\ cache' = cache]_vars
    /\ [][NoKeyAfterLimit]_vars

\* C29 amended: once a key of these adapters is classified rate-limited, the
\* key is recorded in the ledger and the write of the ledger to disk is
\* attempted: if it succeeds the file holds the ledger and the source returns,
\* if it raises the exception leaves the source; either way no key after it in
\* that source gets a fetch, a cache write or a manifest update in that run
C29_LimitedStopsSource ==
    /\ [][LimitStep =>
            /\ Limited(rate_limits', last'.key)
            /\ rate_limits'[last'.key].error = last'.error
            /\ \/ /\ last'.escaped = None
                  /\ ledgerDisk' = rate_limits'
                  /\ pc' = "dispatch" /\ srcPos' = srcPos + 1
               \/ /\ last'.escaped # None
                  /\ ledgerDisk' = ledgerDisk
                  /\ pc' = "raised"
            /\ manifest' = manifest /\ cache' = cache]_vars
    /\ [][NoKeyAfterLimit]_vars

\* a run has ended in which the first key of fred was rate-limited: the file
\* holds its record and the second key was neither fetched nor recorded
C29_Witness ==
    /\ pc = "done" /\ invoked["fred"] = 1
    /\ Limited(ledgerDisk, <<"fred", "DFF">>)
    /\ ledgerDisk[<<"fred", "DFF">>].hit_at = today
    /\ ~manifest[<<"fred", "DGS10">>].present
    /\ ~cache[<<"fred", "DGS10">>].some

\* C30: whenever no run is in progress, after a run that completed or one that
\* was interrupted, every entry of the on-disk manifest with status ok has a
\* rows value equal to the number of rows of the table cached under that key
C30_ManifestRowsMatchCache ==
    pc = "idle" =>
       \A k \in Keys :
          (manifestDisk[k].present /\ manifestDisk[k].status = "ok") =>
             /\ cache[k].some
             /\ manifestDisk[k].rows = Len(cache[k].t)

-----------------------------------------------------------------------------
(* Properties of the merge, checked under SpecMerge *)

\* C5: the incremental merge is idempotent: merge(merge(E, D), D) equals
\* merge(E, D), rows and row order included
C5_MergeIdempotent == merges = 2 => tabMM = tabM

\* both merges done on tables that share an index value with different rows
C5_Witness ==
    /\ merges = 2
    /\ \E i \in DOMAIN tabE, j \in DOMAIN tabD :
          tabE[i][1] = tabD[j][1] /\ tabE[i][2] # tabD[j][2]

\* the last row of table t with index x
LastRow(t, x) ==
    t[CHOOSE i \in DOMAIN t : t[i][1] = x /\ \A j \in (i + 1)..Len(t) : t[j][1] # x]

\* C6: the index of merge(existing, incoming) is the union of the two indices,
\* no index value occurs twice, and for an index value of both tables the merged
\* row is the row of incoming
C6_MergeUnion ==
    merges >= 1 =>
      /\ IndexOf(tabM) = IndexOf(tabE) \cup IndexOf(tabD)
      /\ \A i, j \in DOMAIN tabM : i # j => tabM[i][1] # tabM[j][1]
      /\ \A x \in IndexOf(tabE) \cap IndexOf(tabD) : LastRow(tabM, x) = LastRow(tabD, x)

\* a merge of tables that share one index value and each hold one the other lacks
C6_Witness ==
    /\ merges >= 1
    /\ \E i \in DOMAIN tabE, j \in DOMAIN tabD :
          tabE[i][1] = tabD[j][1] /\ tabE[i][2] # tabD[j][2]
    /\ IndexOf(tabE) \ IndexOf(tabD) # {}
    /\ IndexOf(tabD) \ IndexOf(tabE) # {}

\* C27: the index of the merged table is strictly increasing for every existing
\* table with a strictly increasing index and every incoming table (here: every
\* incoming table that is itself in increasing order), also when incoming holds
\* index values that lie before the maximum of existing
C27_MergedIncreasing ==
    (merges >= 1 /\ StrictlyIncreasing(tabD)) => StrictlyIncreasing(tabM)

-----------------------------------------------------------------------------
(* Properties of the read path, checked under SpecRead *)

\* C8: for every key and every window the read path returns a non-empty table,
\* cached data when a cache file exists and synthetic data otherwise
C8_NeverEmpty ==
    rdFrom # None =>
      /\ Len(rdOut.t) > 0
      /\ rdFrom \in {"cache", "synthetic"}

\* C9: whenever a readable cache file exists for a key, the read path returns
\* rows of that cache for every window, 1mo included; synthetic data is
\* returned only on a cache miss
C9_CacheForEveryWindow ==
    rdFrom # None =>
      /\ rdCache.some => (rdFrom = "cache" /\ Range(rdOut.t) \subseteq Range(rdCache.t))
      /\ rdFrom = "synthetic" => ~rdCache.some

\* C10: the table returned for a window holds only rows inside the window, the
\* period_days days up to the latest row, from the cache or the generator
C10_InsideWindow ==
    (rdFrom # None /\ period_days(rdPeriod) # 0 /\ Len(rdOut.t) > 0) =>
      \A i \in DOMAIN rdOut.t :
         rdOut.t[i][1] >= MaxIndex(rdOut.t) - period_days(rdPeriod)

====
